---- MODULE Spec2Model ----
(***************************************************************************)
(* Ranking evaluation of the music-recommendation notebook                 *)
(* (tables/automl/notebooks/music_recommendation/music_recommendation.ipynb*)
(* section 4.3): the precision@k / recall@k loop, calculate_ap and the     *)
(* map_at_k comprehension.                                                 *)
(*                                                                         *)
(* Numbers.  The notebook divides numpy integers (true division, because   *)
(* of `from __future__ import division`), so every metric is a quotient of *)
(* small integers.  A value is modelled as an exact fraction <<n, d>> in   *)
(* lowest terms with d > 0; 0/0 is NaN (numpy returns nan and only warns). *)
(* IEEE rounding of the doubles is not modelled.                           *)
(*                                                                         *)
(* Indexing.  Python lists are 0-based, TLA+ sequences 1-based: the Python *)
(* element at index i is the TLA+ element at index i + 1.                  *)
(***************************************************************************)
EXTENDS Integers, Sequences, FiniteSets, TLC

\* Longest prediction table (number of rows of df) that is explored.
MaxLen == 4

\* Stop value of `for k in range(1, 1000)` (notebook line 688), scaled down:
\* the loop runs k = 1 .. RangeStop - 1.
RangeStop == 5

\* `num_k = 500` (notebook line 733), scaled down with RangeStop; as in the
\* notebook, num_k <= RangeStop - 1.
num_k == 2

\* Python index of the value printed as "MAP@50", `map_at_k[49]` (notebook
\* line 736), scaled down with num_k; the cutoff in the label is the index
\* plus one.
PrintIndex == 1

\* users = ["rob", "fiveofoh", "Aerion"]
Users == <<"rob", "fiveofoh", "Aerion">>

UserSet == {Users[i] : i \in DOMAIN Users}

\* label = IF(user_song_listens > 2, 1, 0).  A NULL label of the LEFT JOIN
\* is skipped by pandas' sum and so counts exactly like 0.
Labels == {0, 1}

\* One row of df, reduced to the columns the evaluation reads or that tell
\* whose row it is.  df is ORDER BY score DESC: the position is the rank.
Rows == [user : UserSet, label : Labels]

Tables == UNION {[1..n -> Rows] : n \in 0..MaxLen}

Perms == {p \in [1..Len(Users) -> UserSet] : \A i, j \in 1..Len(Users) : p[i] = p[j] => i = j}

(***************************************************************************)
(* Exact arithmetic                                                        *)
(***************************************************************************)
NaN == <<0, 0>>

RECURSIVE GCD(_, _)
GCD(a, b) == IF b = 0 THEN a ELSE GCD(b, a % b)

\* numpy true division of two non-negative integers
Div(n, d) ==
  IF d = 0 THEN (IF n = 0 THEN NaN ELSE <<1, 0>>)
  ELSE LET g == GCD(n, d) IN <<n \div g, d \div g>>

IsNaN(x) == x = NaN

\* float + float
RatAdd(x, y) ==
  IF x[2] = 0 \/ y[2] = 0 THEN (IF IsNaN(x) \/ IsNaN(y) THEN NaN ELSE <<1, 0>>)
  ELSE Div(x[1] * y[2] + y[1] * x[2], x[2] * y[2])

\* float / int
RatDivInt(x, n) ==
  IF x[2] = 0 THEN x ELSE Div(x[1], x[2] * n)

\* x <= y on floats; every comparison with NaN is false
RatLeq(x, y) ==
  /\ ~IsNaN(x)
  /\ ~IsNaN(y)
  /\ x[1] * y[2] <= y[1] * x[2]

Zero == Div(0, 1)

One == Div(1, 1)

Min(a, b) == IF a <= b THEN a ELSE b

(***************************************************************************)
(* The loop body of the precision / recall cell                            *)
(***************************************************************************)
\* df["label"][:k]: a slice never fails, it stops at the end of the column
LabelSlice(d, k) == [i \in 1..Min(k, Len(d)) |-> d[i].label]

\* Series.sum()
RECURSIVE SeriesSum(_)
SeriesSum(s) == IF Len(s) = 0 THEN 0 ELSE s[1] + SeriesSum(Tail(s))

\* df["label"]
LabelColumn(d) == [i \in 1..Len(d) |-> d[i].label]

\* slip: the slice stops one row early, df["label"][:k - 1]
PrecisionAt_ShortSlice(d, k) == Div(SeriesSum(LabelSlice(d, k - 1)), k)

\* slip: the slice is forgotten, df["label"].sum() / k
PrecisionAt_NoSlice(d, k) == Div(SeriesSum(LabelColumn(d)), k)

\* precision = df["label"][:k].sum() / k
PrecisionAt(d, k) == Div(SeriesSum(LabelSlice(d, k)), k)

\* slip: the precision line copied, the hits divided by k
RecallAt_OverK(d, k) == Div(SeriesSum(LabelSlice(d, k)), k)

\* slip: the slice stops one row early
RecallAt_ShortSlice(d, k) == Div(SeriesSum(LabelSlice(d, k - 1)), SeriesSum(LabelColumn(d)))

\* recall = df["label"][:k].sum() / df["label"].sum()
RecallAt(d, k) == Div(SeriesSum(LabelSlice(d, k)), SeriesSum(LabelColumn(d)))

\* for k in range(1, 1000): ... .append(precision)
PrecisionCurve(d) == [k \in 1..(RangeStop - 1) |-> PrecisionAt(d, k)]

\* for k in range(1, 1000): ... .append(recall)
RecallCurve(d) == [k \in 1..(RangeStop - 1) |-> RecallAt(d, k)]

(***************************************************************************)
(* calculate_ap and map_at_k                                               *)
(***************************************************************************)
\* ap = [precision[0]]; for p in precision[1:]: ap.append(ap[-1] + p)
RECURSIVE RunningSum(_)
RunningSum(precision) ==
  IF Len(precision) = 1 THEN <<precision[1]>>
  ELSE LET ap == RunningSum(SubSeq(precision, 1, Len(precision) - 1))
       IN Append(ap, RatAdd(ap[Len(ap)], precision[Len(precision)]))

\* slip: every running sum divided by len(ap) instead of its own n + 1
calculate_ap_OverLen(precision) ==
  LET ap == RunningSum(precision)
  IN [i \in 1..Len(ap) |-> RatDivInt(ap[i], Len(ap))]

\* ap = [x / (n + 1) for x, n in zip(ap, range(len(ap)))]; n is the 0-based
\* position, i the 1-based one
calculate_ap(precision) ==
  LET ap == RunningSum(precision)
  IN [i \in 1..Len(ap) |-> RatDivInt(ap[i], (i - 1) + 1)]

\* slip: ap_at_k[users[0]][k] summed once per user
RECURSIVE SumOverUsers_FirstUser(_, _, _)
SumOverUsers_FirstUser(us, ap, j) ==
  IF Len(us) = 0 THEN Zero
  ELSE RatAdd(SumOverUsers_FirstUser(SubSeq(us, 1, Len(us) - 1), ap, j), ap[us[1]][j])

\* sum([ap_at_k[user][k] for user in users]): left fold from 0 in list order;
\* j is the 1-based position of the Python index k
RECURSIVE SumOverUsers(_, _, _)
SumOverUsers(us, ap, j) ==
  IF Len(us) = 0 THEN Zero
  ELSE RatAdd(SumOverUsers(SubSeq(us, 1, Len(us) - 1), ap, j), ap[us[Len(us)]][j])

\* slip: the last user of the list is left out of the sum, users[:-1]
MapEntry_SkipLast(us, ap, j) ==
  RatDivInt(SumOverUsers(SubSeq(us, 1, Len(us) - 1), ap, j), Len(us))

\* sum([...]) / len(users)
MapEntry(us, ap, j) == RatDivInt(SumOverUsers(us, ap, j), Len(us))

\* slip: the cutoffs run over range(1, num_k + 1), one position too far
MapCurve_FromOne(us, ap) == [j \in 1..num_k |-> MapEntry(us, ap, j + 1)]

\* [... for k in range(num_k)]
MapCurve(us, ap) == [j \in 1..num_k |-> MapEntry(us, ap, j)]

(***************************************************************************)
(* State                                                                   *)
(***************************************************************************)
VARIABLES
  df,              \* the prediction table of the evaluation query
  users,           \* the list `users`
  user,            \* the module-level loop variable `user`
  precision_at_k,  \* dict user -> list
  recall_at_k,     \* dict user -> list
  ap_at_k,         \* dict user -> list
  map_at_k,        \* list
  pc,              \* position in the evaluation cells
  ui,              \* 1-based position of the `for user in users` iterator
  err,             \* exception that stopped the run, or "none"
  topn,            \* user the top-n query was issued for, "NameError" when
                   \* the cell failed on the name `user`, "not run" before
  printed          \* the value printed as MAP@50, <<>> before

vars == <<df, users, user, precision_at_k, recall_at_k, ap_at_k, map_at_k, pc, ui, err,
          topn, printed>>

EmptyDict == [u \in {} |-> <<>>]

\* d[key] = value
DictSet(d, key, value) ==
  [u \in (DOMAIN d) \cup {key} |-> IF u = key THEN value ELSE d[u]]

\* State of a fresh kernel when the top-n cell of section 4.2 is reached;
\* df is the result the evaluation query will return and the dicts are as
\* the first lines of the precision / recall cell set them.
Init ==
  /\ df \in Tables
  /\ users = Users
  /\ user = "unbound"
  /\ precision_at_k = EmptyDict
  /\ recall_at_k = EmptyDict
  /\ ap_at_k = EmptyDict
  /\ map_at_k = <<>>
  /\ pc = "topn"
  /\ ui = 1
  /\ err = "none"
  /\ topn = "not run"
  /\ printed = <<>>

\* The top-n cell: `.format(..., training_table, user, n)` reads the name
\* `user`, which no earlier cell binds.  The kernel survives a failed cell
\* and the cells below can still be run.
TopNCell ==
  /\ pc = "topn"
  /\ topn' = IF user = "unbound" THEN "NameError" ELSE user
  /\ pc' = "loop"
  /\ UNCHANGED <<df, users, user, precision_at_k, recall_at_k, ap_at_k, map_at_k, ui, err,
                 printed>>

\* One iteration of `for user in users:` with its whole inner loop.
UserIteration ==
  /\ pc = "loop"
  /\ ui <= Len(users)
  /\ user' = users[ui]
  /\ precision_at_k' = DictSet(precision_at_k, users[ui], PrecisionCurve(df))
  /\ recall_at_k' = DictSet(recall_at_k, users[ui], RecallCurve(df))
  /\ ui' = ui + 1
  /\ pc' = IF ui = Len(users) THEN "ap" ELSE "loop"
  /\ UNCHANGED <<df, users, ap_at_k, map_at_k, err, topn, printed>>

\* An empty query result whose label column holds Python objects: both sums
\* are the Python int 0 and `0 / 0` raises at k = 1, after the two empty
\* lists were stored and before anything is appended.
UserIterationRaises ==
  /\ pc = "loop"
  /\ ui <= Len(users)
  /\ Len(df) = 0
  /\ user' = users[ui]
  /\ precision_at_k' = DictSet(precision_at_k, users[ui], <<>>)
  /\ recall_at_k' = DictSet(recall_at_k, users[ui], <<>>)
  /\ err' = "ZeroDivisionError"
  /\ pc' = "error"
  /\ UNCHANGED <<df, users, ap_at_k, map_at_k, ui, topn, printed>>

\* slip: the accumulator `ap` is one module-level list that every call of
\* calculate_ap appends to, so a call returns the sums of all calls so far
ComputeAP_SharedAcc ==
  LET items == SelectSeq(Users, LAMBDA u : u \in DOMAIN precision_at_k)
      Acc[i \in 0..Len(items)] ==
        IF i = 0 THEN <<>> ELSE Acc[i - 1] \o RunningSum(precision_at_k[items[i]])
      Pos(u) == CHOOSE i \in 1..Len(items) : items[i] = u
  IN /\ pc = "ap"
     /\ IF \E u \in DOMAIN precision_at_k : Len(precision_at_k[u]) = 0
          THEN /\ err' = "IndexError"
               /\ pc' = "error"
               /\ UNCHANGED ap_at_k
          ELSE /\ ap_at_k' = [u \in DOMAIN precision_at_k |->
                                [n \in 1..Len(Acc[Pos(u)]) |-> RatDivInt(Acc[Pos(u)][n], n)]]
               /\ pc' = "map"
               /\ UNCHANGED err
     /\ UNCHANGED <<df, users, user, precision_at_k, recall_at_k, map_at_k, ui, topn, printed>>

\* ap_at_k = {user: calculate_ap(pk) for user, pk in precision_at_k.items()}
ComputeAP ==
  /\ pc = "ap"
  /\ IF \E u \in DOMAIN precision_at_k : Len(precision_at_k[u]) = 0
       THEN /\ err' = "IndexError"
            /\ pc' = "error"
            /\ UNCHANGED ap_at_k
       ELSE /\ ap_at_k' = [u \in DOMAIN precision_at_k |-> calculate_ap(precision_at_k[u])]
            /\ pc' = "map"
            /\ UNCHANGED err
  /\ UNCHANGED <<df, users, user, precision_at_k, recall_at_k, map_at_k, ui, topn, printed>>

\* print("MAP@50: {}".format(map_at_k[49])), on the list just stored
PrintMAP ==
  IF PrintIndex + 1 <= Len(map_at_k')
    THEN /\ printed' = map_at_k'[PrintIndex + 1]
         /\ pc' = "done"
         /\ UNCHANGED err
    ELSE /\ err' = "IndexError"
         /\ pc' = "error"
         /\ UNCHANGED printed

\* slip: users without an AP curve are skipped,
\* `for user in users if user in ap_at_k`
ComputeMAP_SkipMissing ==
  LET present == SelectSeq(users, LAMBDA u : u \in DOMAIN ap_at_k)
  IN /\ pc = "map"
     /\ IF \E i \in 1..Len(present) : Len(ap_at_k[present[i]]) < num_k
          THEN /\ err' = "IndexError"
               /\ pc' = "error"
               /\ UNCHANGED <<map_at_k, printed>>
          ELSE /\ map_at_k' = MapCurve(present, ap_at_k)
               /\ PrintMAP
     /\ UNCHANGED <<df, users, user, precision_at_k, recall_at_k, ap_at_k, ui, topn>>

\* map_at_k = [sum([ap_at_k[user][k] for user in users]) / len(users)
\*             for k in range(num_k)]
ComputeMAP ==
  /\ pc = "map"
  /\ IF \E i \in 1..Len(users) : users[i] \notin DOMAIN ap_at_k
       THEN /\ err' = "KeyError"
            /\ pc' = "error"
            /\ UNCHANGED <<map_at_k, printed>>
       ELSE IF \E i \in 1..Len(users) : Len(ap_at_k[users[i]]) < num_k
       THEN /\ err' = "IndexError"
            /\ pc' = "error"
            /\ UNCHANGED <<map_at_k, printed>>
       ELSE /\ map_at_k' = MapCurve(users, ap_at_k)
            /\ PrintMAP
  /\ UNCHANGED <<df, users, user, precision_at_k, recall_at_k, ap_at_k, ui, topn>>

Next ==
  \/ TopNCell
  \/ UserIteration
  \/ UserIterationRaises
  \/ ComputeAP
  \/ ComputeMAP

Spec == Init /\ [][Next]_vars

(***************************************************************************)
(* calculate_ap and the map_at_k comprehension run on their own: the cell  *)
(* starts from any dict of precision lists and any order of `users`.       *)
(***************************************************************************)
\* precision values a list may hold
PVals == {Div(0, 1), Div(1, 2), Div(1, 1)}

\* precision lists: empty, one entry short of num_k, or num_k entries
PLists == UNION {[1..n -> PVals] : n \in {0, num_k - 1, num_k}}

PDicts == UNION {[D -> PLists] : D \in SUBSET UserSet}

InitFn ==
  /\ df = <<>>
  /\ users \in Perms
  /\ user = "unbound"
  /\ precision_at_k \in PDicts
  /\ recall_at_k = EmptyDict
  /\ ap_at_k = EmptyDict
  /\ map_at_k = <<>>
  /\ pc = "ap"
  /\ ui = 1
  /\ err = "none"
  /\ topn = "not run"
  /\ printed = <<>>

NextFn ==
  \/ ComputeAP
  \/ ComputeMAP

SpecFn == InitFn /\ [][NextFn]_vars

(***************************************************************************)
(* Properties                                                              *)
(***************************************************************************)
\* number of rows with label 1 among the first k rows of d
Hits(d, k) == Cardinality({i \in 1..k : i <= Len(d) /\ d[i].label = 1})

\* number of relevant rows of user u in the whole table
TotalRelevant(d, u) == Cardinality({i \in DOMAIN d : d[i].user = u /\ d[i].label = 1})

\* rank of the last relevant row (the table holds one)
LastRelevant(d) ==
  CHOOSE i \in DOMAIN d : d[i].label = 1 /\ \A j \in DOMAIN d : j > i => d[j].label = 0

RECURSIVE RatSeqSum(_)
RatSeqSum(s) == IF s = <<>> THEN Zero ELSE RatAdd(Head(s), RatSeqSum(Tail(s)))

\* mean of p[1..k]
MeanOfFirst(p, k) == RatDivInt(RatSeqSum(SubSeq(p, 1, k)), k)

RECURSIVE SetSum(_, _, _)
SetSum(S, ap, j) ==
  IF S = {} THEN Zero
  ELSE LET u == CHOOSE x \in S : TRUE
       IN RatAdd(ap[u][j], SetSum(S \ {u}, ap, j))

\* C1: for every cutoff k from 1 to the length of the ranked list, the stored
\* precision@k is the number of label-1 rows among the first k rows divided
\* by k.
C1_PrecisionIsHitsOverK ==
  \A u \in DOMAIN precision_at_k :
    \A k \in DOMAIN precision_at_k[u] :
      k <= Len(df) => precision_at_k[u][k] = Div(Hits(df, k), k)

\* labels [1,0,1,0] were scored: precision 1, 1/2, 2/3, 1/2
C1_Witness ==
  /\ pc = "done"
  /\ LabelColumn(df) = <<1, 0, 1, 0>>
  /\ SubSeq(precision_at_k["rob"], 1, 4) = <<<<1, 1>>, <<1, 2>>, <<2, 3>>, <<1, 2>>>>

\* C2: every precision@k that is produced lies between 0 and 1.
C2_PrecisionInUnitInterval ==
  \A u \in DOMAIN precision_at_k :
    \A k \in DOMAIN precision_at_k[u] :
      /\ RatLeq(Zero, precision_at_k[u][k])
      /\ RatLeq(precision_at_k[u][k], One)

\* a cutoff beyond the end of the table with a precision strictly inside (0,1)
C2_Witness ==
  \E u \in DOMAIN precision_at_k :
    \E k \in DOMAIN precision_at_k[u] :
      /\ k > Len(df)
      /\ precision_at_k[u][k] # Zero
      /\ precision_at_k[u][k] # One

\* C3: for every cutoff k up to the length of the list, the recall@k stored
\* for a user is the number of relevant rows among the first k divided by the
\* number of relevant items of that user in the whole candidate table (a
\* user with at least one relevant item).
C3_RecallOverUserTotal ==
  \A u \in DOMAIN recall_at_k :
    \A k \in DOMAIN recall_at_k[u] :
      (k <= Len(df) /\ TotalRelevant(df, u) > 0) =>
        recall_at_k[u][k] = Div(Hits(df, k), TotalRelevant(df, u))

\* C4: when the table holds a relevant row, recall@k never decreases as k
\* grows.
C4_RecallNonDecreasing ==
  SeriesSum(LabelColumn(df)) > 0 =>
    \A u \in DOMAIN recall_at_k :
      \A k1, k2 \in DOMAIN recall_at_k[u] :
        k1 <= k2 => RatLeq(recall_at_k[u][k1], recall_at_k[u][k2])

\* a recall curve that really rises
C4_Witness ==
  /\ pc = "done"
  /\ \E u \in DOMAIN recall_at_k :
       \E k1, k2 \in DOMAIN recall_at_k[u] :
         /\ k1 < k2
         /\ RatLeq(recall_at_k[u][k1], recall_at_k[u][k2])
         /\ recall_at_k[u][k1] # recall_at_k[u][k2]

\* C5: when the table holds a relevant row, recall@k is exactly 1 from the
\* rank of the last relevant row on and strictly below 1 before it.
C5_RecallOneFromLastRelevant ==
  SeriesSum(LabelColumn(df)) > 0 =>
    \A u \in DOMAIN recall_at_k :
      \A k \in DOMAIN recall_at_k[u] :
        IF k >= LastRelevant(df)
          THEN recall_at_k[u][k] = One
          ELSE /\ RatLeq(recall_at_k[u][k], One)
               /\ recall_at_k[u][k] # One

\* two relevant rows, the last one at a rank the curve reaches: below 1 right
\* before it, 1 at it
C5_Witness ==
  /\ SeriesSum(LabelColumn(df)) >= 2
  /\ \E u \in DOMAIN recall_at_k :
       LET last == LastRelevant(df)
       IN /\ last \in DOMAIN recall_at_k[u]
          /\ recall_at_k[u][last] = One
          /\ recall_at_k[u][last - 1] # One
          /\ recall_at_k[u][last - 1] # Zero

\* C6: calculate_ap returns a list as long as its input whose k-th element
\* is the mean of the first k precision values.
C6_APIsRunningMean ==
  \A u \in DOMAIN ap_at_k :
    /\ Len(ap_at_k[u]) = Len(precision_at_k[u])
    /\ \A k \in DOMAIN ap_at_k[u] : ap_at_k[u][k] = MeanOfFirst(precision_at_k[u], k)

\* precision 1, 1/2, 2/3 gave AP 1, 3/4, 13/18
C6_Witness ==
  /\ "rob" \in DOMAIN ap_at_k
  /\ SubSeq(precision_at_k["rob"], 1, 3) = <<<<1, 1>>, <<1, 2>>, <<2, 3>>>>
  /\ SubSeq(ap_at_k["rob"], 1, 3) = <<<<1, 1>>, <<3, 4>>, <<13, 18>>>>

\* C7: every MAP@k is the sum over the users of their AP at k divided by the
\* number of users, and lies between 0 and 1.
C7_MAPIsMeanOverUsers ==
  pc = "done" =>
    /\ Len(map_at_k) = num_k
    /\ \A j \in DOMAIN map_at_k :
         /\ map_at_k[j] = RatDivInt(SetSum(UserSet, ap_at_k, j), Cardinality(UserSet))
         /\ RatLeq(Zero, map_at_k[j])
         /\ RatLeq(map_at_k[j], One)

\* users with different AP at the last cutoff and a MAP strictly inside (0,1)
C7_Witness ==
  /\ pc = "done"
  /\ \E u, v \in UserSet : ap_at_k[u][num_k] # ap_at_k[v][num_k]
  /\ map_at_k[num_k] # Zero
  /\ map_at_k[num_k] # One

C9_CutoffBeyondListSignalled ==
  \A u \in DOMAIN precision_at_k :
    /\ \A k \in DOMAIN precision_at_k[u] : (Len(df) > 0 /\ k > Len(df)) => err # "none"
    /\ \A k \in DOMAIN recall_at_k[u] : (Len(df) > 0 /\ k > Len(df)) => err # "none"

\* C10: when the table has rows but no relevant one, no recall@k entry is a
\* NaN or a 0 stored without an error.
C10_ZeroRelevantSignalled ==
  (Len(df) > 0 /\ SeriesSum(LabelColumn(df)) = 0) =>
    \A u \in DOMAIN recall_at_k :
      \A k \in DOMAIN recall_at_k[u] :
        \/ err # "none"
        \/ (~IsNaN(recall_at_k[u][k]) /\ recall_at_k[u][k] # Zero)

\* the rows of user u, in rank order
RECURSIVE UserRows(_, _)
UserRows(d, u) ==
  IF Len(d) = 0 THEN <<>>
  ELSE IF d[1].user = u THEN <<d[1]>> \o UserRows(Tail(d), u)
  ELSE UserRows(Tail(d), u)

\* the users that have at least one row
UsersWithRows(d) == {d[i].user : i \in DOMAIN d}

\* C11: a user whose ranked list is empty gets no precision, recall or AP
\* value (the curves stay empty or an error is signalled), and the MAP is
\* the mean over the users that do have rows.
C11_EmptyListUndefined ==
  \A u \in DOMAIN precision_at_k :
    (Len(UserRows(df, u)) = 0 /\ err = "none") =>
      /\ precision_at_k[u] = <<>>
      /\ recall_at_k[u] = <<>>
      /\ u \in DOMAIN ap_at_k => ap_at_k[u] = <<>>
      /\ pc = "done" =>
           \A j \in DOMAIN map_at_k :
             map_at_k[j] = RatDivInt(SetSum(UsersWithRows(df), ap_at_k, j),
                                     Cardinality(UsersWithRows(df)))

\* C13: the precision and recall curves stored for a user that has rows are
\* the curves of that user's own rows.
C13_CurvesFromOwnRows ==
  \A u \in DOMAIN precision_at_k :
    (err = "none" /\ Len(UserRows(df, u)) > 0) =>
      /\ precision_at_k[u] = PrecisionCurve(UserRows(df, u))
      /\ recall_at_k[u] = RecallCurve(UserRows(df, u))

\* C14: no curve of a user is longer than the table that was scored for the
\* user (a table with at least one row).
C14_CurveNoLongerThanTable ==
  Len(df) > 0 =>
    /\ \A u \in DOMAIN precision_at_k : Len(precision_at_k[u]) <= Len(df)
    /\ \A u \in DOMAIN recall_at_k : Len(recall_at_k[u]) <= Len(df)
    /\ \A u \in DOMAIN ap_at_k : Len(ap_at_k[u]) <= Len(df)

\* C12: when the users list names a user that has no AP curve, the MAP cell
\* raises KeyError and stores no map_at_k; it never averages over the
\* remaining users.
C12_MissingUserRaises ==
  [][(pc = "map" /\ \E i \in 1..Len(users) : users[i] \notin DOMAIN ap_at_k) =>
       (err' = "KeyError" /\ pc' = "error" /\ map_at_k' = <<>>)]_vars

\* the MAP cell stopped with KeyError although some users have AP curves
C12_Witness ==
  /\ pc = "error"
  /\ err = "KeyError"
  /\ DOMAIN ap_at_k # {}
  /\ map_at_k = <<>>

\* precision at cutoff c of table d
CutoffPrecision(d, c) == Div(Hits(d, c), c)

\* mean over the users of the value a[c] that each of them has at cutoff c
MeanOverUsers(a, c) ==
  RatDivInt(SetSum(UserSet, [u \in UserSet |-> a], c), Cardinality(UserSet))

\* C15: the element at 0-based position i of precision_at_k[user],
\* recall_at_k[user], ap_at_k[user] and map_at_k is the metric at cutoff
\* i + 1, and the value printed as MAP@(PrintIndex + 1) is the mean over the
\* users of the running mean of precision@1 .. precision@(PrintIndex + 1).
C15_PositionIsCutoffMinusOne ==
  LET \* precision and its running mean at every cutoff c of the loop
      P == [c \in 1..(RangeStop - 1) |-> CutoffPrecision(df, c)]
      A == [c \in 1..(RangeStop - 1) |-> MeanOfFirst(P, c)]
  IN /\ \A u \in DOMAIN precision_at_k :
          \A i \in 0..(Len(precision_at_k[u]) - 1) :
            /\ precision_at_k[u][i + 1] = P[i + 1]
            /\ recall_at_k[u][i + 1] = Div(Hits(df, i + 1), Hits(df, Len(df)))
     /\ \A u \in DOMAIN ap_at_k :
          \A i \in 0..(Len(ap_at_k[u]) - 1) : ap_at_k[u][i + 1] = A[i + 1]
     /\ \A i \in 0..(Len(map_at_k) - 1) : map_at_k[i + 1] = MeanOverUsers(A, i + 1)
     /\ pc = "done" => printed = MeanOverUsers(A, PrintIndex + 1)

\* a run that printed a MAP which differs from the MAP at the cutoff before
C15_Witness ==
  /\ pc = "done"
  /\ printed = map_at_k[PrintIndex + 1]
  /\ printed # map_at_k[PrintIndex]
  /\ printed # Zero

C17_TopNQueryForRob ==
  topn # "not run" => topn = "rob"

====
